---- MODULE Spec2Model ----
(***************************************************************************)
(* Yelp Top Places API (src/app.py): GET /top validates the query, looks   *)
(* the query up in a shared TTL cache, calls the upstream search on a      *)
(* miss, re-ranks the records by a Bayesian score and caches the response. *)
(*                                                                         *)
(* Conventions.  Ratings are held in tenths (46 is 4.6) and rounded scores *)
(* in hundredths (451 is 4.51).  A string is a sequence of one-character   *)
(* strings.  An absent price (None) and the empty string are both the      *)
(* empty sequence: every use in the code (`if price:` and `price or ''`)   *)
(* treats them alike.  The clock is in seconds.                            *)
(***************************************************************************)
EXTENDS Integers, Sequences, FiniteSets, TLC

(***************************************************************************)
(* Bounds of the model.                                                    *)
(***************************************************************************)
NumReq == 2        \* request threads that may be in flight together
MaxTicks == 2      \* clock advances explored
MaxPool == 3       \* records in an upstream answer that is re-ranked
MaxLimit == 3      \* display limits tried on it

(***************************************************************************)
(* Configuration (src/app.py:26-31).                                       *)
(***************************************************************************)
PRIOR_RATING10 == 38   \* C = 3.8, in tenths
DAMPING_FACTOR == 150  \* m
ttl == 600
\* TTLCache(maxsize=500, ...): capacity scaled down to 2 entries so that
\* capacity eviction is reachable with the few distinct keys of Queries.
maxsize == 2

(***************************************************************************)
(* Python numbers.  A float is an IEEE-754 double; its arithmetic is        *)
(* modelled bit for bit (round to nearest, ties to even) on top of natural *)
(* numbers held as little-endian sequences of limbs in base 2^15, the       *)
(* empty sequence being zero.  The values of the model stay far from the   *)
(* subnormal and overflow ranges, which are not modelled.                  *)
(***************************************************************************)
LimbBits == 15
LimbBase == 32768
MantBits == 53
DivGuardBits == 75

RECURSIVE Pow2(_)
Pow2(n) == IF n = 0 THEN 1 ELSE 2 * Pow2(n - 1)

Abs(n) == IF n < 0 THEN -n ELSE n
Sgn(n) == IF n < 0 THEN -1 ELSE 1
Min(a, b) == IF a <= b THEN a ELSE b

RECURSIVE BNorm(_)
BNorm(x) ==
    IF x = <<>> THEN <<>>
    ELSE IF x[Len(x)] = 0 THEN BNorm(SubSeq(x, 1, Len(x) - 1))
    ELSE x

RECURSIVE BFromInt(_)
BFromInt(n) ==
    IF n = 0 THEN <<>> ELSE <<n % LimbBase>> \o BFromInt(n \div LimbBase)

RECURSIVE BToInt(_)
BToInt(x) == IF x = <<>> THEN 0 ELSE Head(x) + LimbBase * BToInt(Tail(x))

Limb(x, i) == IF i <= Len(x) THEN x[i] ELSE 0

RECURSIVE BAddC(_, _, _)
BAddC(x, y, carry) ==
    IF x = <<>> /\ y = <<>>
    THEN IF carry = 0 THEN <<>> ELSE <<carry>>
    ELSE LET t == Limb(x, 1) + Limb(y, 1) + carry
         IN  <<t % LimbBase>>
                 \o BAddC(IF x = <<>> THEN <<>> ELSE Tail(x),
                          IF y = <<>> THEN <<>> ELSE Tail(y),
                          t \div LimbBase)

BAdd(x, y) == BAddC(x, y, 0)

\* x - y for x >= y
RECURSIVE BSubB(_, _, _)
BSubB(x, y, borrow) ==
    IF x = <<>> THEN <<>>
    ELSE LET t == Limb(x, 1) - Limb(y, 1) - borrow
         IN  <<IF t < 0 THEN t + LimbBase ELSE t>>
                 \o BSubB(Tail(x), IF y = <<>> THEN <<>> ELSE Tail(y),
                          IF t < 0 THEN 1 ELSE 0)

BSub(x, y) == BNorm(BSubB(x, y, 0))

\* -1, 0, 1 as x < y, x = y, x > y (x, y normalised)
RECURSIVE BCmpFrom(_, _, _)
BCmpFrom(x, y, i) ==
    IF i = 0 THEN 0
    ELSE IF x[i] < y[i] THEN -1
    ELSE IF x[i] > y[i] THEN 1
    ELSE BCmpFrom(x, y, i - 1)

BCmp(x, y) ==
    IF Len(x) < Len(y) THEN -1
    ELSE IF Len(x) > Len(y) THEN 1
    ELSE BCmpFrom(x, y, Len(x))

\* x * k for 0 <= k < LimbBase
RECURSIVE BMulSmallC(_, _, _)
BMulSmallC(x, k, carry) ==
    IF x = <<>>
    THEN IF carry = 0 THEN <<>> ELSE <<carry>>
    ELSE LET t == Head(x) * k + carry
         IN  <<t % LimbBase>> \o BMulSmallC(Tail(x), k, t \div LimbBase)

BMulSmall(x, k) == BNorm(BMulSmallC(x, k, 0))

BShiftLimbs(x, n) == IF x = <<>> THEN <<>> ELSE [i \in 1..n |-> 0] \o x

RECURSIVE BMul(_, _)
BMul(x, y) ==
    IF y = <<>> THEN <<>>
    ELSE BAdd(BMulSmall(x, Head(y)), BShiftLimbs(BMul(x, Tail(y)), 1))

\* floor(x / d) for 0 < d < LimbBase; limbs taken from the most significant
RECURSIVE BDivSmallR(_, _, _, _)
BDivSmallR(x, d, i, r) ==
    IF i = 0 THEN <<>>
    ELSE LET t == r * LimbBase + x[i]
         IN  BDivSmallR(x, d, i - 1, t % d) \o <<t \div d>>

BDivSmall(x, d) == BNorm(BDivSmallR(x, d, Len(x), 0))

RECURSIVE BModSmallR(_, _, _, _)
BModSmallR(x, d, i, r) ==
    IF i = 0 THEN r ELSE BModSmallR(x, d, i - 1, (r * LimbBase + x[i]) % d)

BModSmall(x, d) == BModSmallR(x, d, Len(x), 0)

BShl(x, n) == BMulSmall(BShiftLimbs(x, n \div LimbBits), Pow2(n % LimbBits))

BShr(x, n) ==
    LET k == n \div LimbBits
    IN  IF k >= Len(x) THEN <<>>
        ELSE BDivSmall(SubSeq(x, k + 1, Len(x)), Pow2(n % LimbBits))

RECURSIVE IntBitLen(_)
IntBitLen(n) == IF n = 0 THEN 0 ELSE 1 + IntBitLen(n \div 2)

BBitLen(x) ==
    IF x = <<>> THEN 0 ELSE LimbBits * (Len(x) - 1) + IntBitLen(x[Len(x)])

BIsOdd(x) == x # <<>> /\ x[1] % 2 = 1

\* A double: sign * mant * 2^exp, mant = 0 or 2^52 <= mant < 2^53.
FZero == [sign |-> 1, mant |-> <<>>, exp |-> 0]

\* The double nearest to sign * n * 2^e (+ a positive remainder below the
\* last bit of n when sticky), ties to even.
RoundToDouble(sign, n, e, sticky) ==
    LET len == BBitLen(n)
    IN  IF n = <<>> THEN FZero
        ELSE IF len <= MantBits
        THEN [sign |-> sign, mant |-> BShl(n, MantBits - len),
              exp |-> e - (MantBits - len)]
        ELSE LET s    == len - MantBits
                 q    == BShr(n, s)
                 r    == BSub(n, BShl(q, s))
                 half == BShl(<<1>>, s - 1)
                 c    == BCmp(r, half)
                 up   == c > 0 \/ (c = 0 /\ (sticky \/ BIsOdd(q)))
                 q1   == IF up THEN BAdd(q, <<1>>) ELSE q
             IN  IF BBitLen(q1) > MantBits
                 THEN [sign |-> sign, mant |-> BShr(q1, 1), exp |-> e + s + 1]
                 ELSE [sign |-> sign, mant |-> q1, exp |-> e + s]

\* a / b for ints a, b (b # 0, |b| < LimbBase): correctly rounded quotient.
\* Also the double a decimal literal such as 3.8 = 38/10 denotes.
FDiv(a, b) ==
    LET n == BShl(BFromInt(Abs(a)), DivGuardBits)
    IN  RoundToDouble(Sgn(a) * Sgn(b), BDivSmall(n, Abs(b)), -DivGuardBits,
                      BModSmall(n, Abs(b)) # 0)

FMul(x, y) ==
    RoundToDouble(x.sign * y.sign, BMul(x.mant, y.mant), x.exp + y.exp, FALSE)

\* A dyadic number sign * mant * 2^exp with any natural mant; a double is one.
\* The exact sum of two dyadic numbers (not rounded).
ExactSum(x, y) ==
    IF x.mant = <<>> THEN y
    ELSE IF y.mant = <<>> THEN x
    ELSE LET e  == Min(x.exp, y.exp)
             nx == BShl(x.mant, x.exp - e)
             ny == BShl(y.mant, y.exp - e)
             c  == BCmp(nx, ny)
         IN  IF x.sign = y.sign
             THEN [sign |-> x.sign, mant |-> BAdd(nx, ny), exp |-> e]
             ELSE IF c = 0 THEN FZero
             ELSE IF c > 0
             THEN [sign |-> x.sign, mant |-> BSub(nx, ny), exp |-> e]
             ELSE [sign |-> y.sign, mant |-> BSub(ny, nx), exp |-> e]

FAdd(x, y) ==
    LET s == ExactSum(x, y) IN RoundToDouble(s.sign, s.mant, s.exp, FALSE)

FNeg(x) == IF x.mant = <<>> THEN x ELSE [x EXCEPT !.sign = -x.sign]

FAbs(x) == [x EXCEPT !.sign = 1]

\* -1, 0, 1 as x < y, x = y, x > y (exact, for any dyadic numbers)
FCmp(x, y) ==
    LET s == ExactSum(x, FNeg(y)) IN IF s.mant = <<>> THEN 0 ELSE s.sign

\* round(x, 2) in hundredths: the integer nearest to 100 * x, ties to even.
Round2(x) ==
    LET n == BMulSmall(x.mant, 100)
    IN  IF x.exp >= 0 THEN x.sign * BToInt(BShl(n, x.exp))
        ELSE LET s    == -x.exp
                 q    == BShr(n, s)
                 r    == BSub(n, BShl(q, s))
                 c    == BCmp(r, BShl(<<1>>, s - 1))
                 up   == c > 0 \/ (c = 0 /\ BIsOdd(q))
             IN  x.sign * (BToInt(q) + IF up THEN 1 ELSE 0)

VARIABLES now, cache, req, hist, rk, sc

vars == <<now, cache, req, hist, rk, sc>>

(***************************************************************************)
(* Strings.                                                                *)
(***************************************************************************)
\* str.replace(" ", "")
RECURSIVE StripSpaces(_)
StripSpaces(s) ==
    IF s = <<>> THEN <<>>
    ELSE IF Head(s) = " " THEN StripSpaces(Tail(s))
    ELSE <<Head(s)>> \o StripSpaces(Tail(s))

\* str.split(","): the list of the parts between commas; always non-empty.
RECURSIVE SplitComma(_)
SplitComma(s) ==
    IF s = <<>> THEN << <<>> >>
    ELSE IF Head(s) = "," THEN << <<>> >> \o SplitComma(Tail(s))
    ELSE LET rest == SplitComma(Tail(s))
         IN  << <<Head(s)>> \o Head(rest) >> \o Tail(rest)

SeqToSet(s) == {s[i] : i \in DOMAIN s}

(***************************************************************************)
(* The queries of the model.                                               *)
(***************************************************************************)
Query(lat, lng, limit, price) ==
    [term |-> "pizza", lat |-> lat, lng |-> lng, radius_m |-> 5000,
     limit |-> limit, open_now |-> FALSE, price |-> price]

Queries ==
    { Query(45, -75, 1, <<>>),
      Query(45, -75, 2, <<>>),
      Query(45, -75, 2, <<"1", ",", "2">>),
      Query(45, -75, 2, <<"2", ",", "1">>),
      Query(45, -75, 2, <<"1", ",", "5">>),
      Query(45, -75, 2, <<"1", "x">>),
      Query(91, -75, 2, <<>>),
      Query(45, -181, 2, <<"1">>) }

NoQuery == Query(0, 0, 0, <<>>)

(***************************************************************************)
(* Request validation.                                                     *)
(***************************************************************************)
\* Query(..., ge=-90, le=90), Query(..., ge=-180, le=180), radius_m and limit
\* ranges: enforced by the framework before the handler body runs (422).
ParamsInRange(q) ==
    /\ q.lat >= -90 /\ q.lat <= 90
    /\ q.lng >= -180 /\ q.lng <= 180
    /\ q.radius_m >= 100 /\ q.radius_m <= 40000
    /\ q.limit >= 1 /\ q.limit <= 50

valid_prices == {<<"1">>, <<"2">>, <<"3">>, <<"4">>}

price_parts(price) == SeqToSet(SplitComma(StripSpaces(price)))

\* A price accepted as soon as one of its parts is valid
PriceValid_AnyPart(price) ==
    price # <<>> => price_parts(price) \cap valid_prices # {}

\* `if price:` ... `if not price_parts.issubset(valid_prices): raise 400`
PriceValid(price) ==
    price # <<>> => price_parts(price) \subseteq valid_prices

\* f"{term}|{lat}|{lng}|{radius_m}|{open_now}|{price or ''}"
cache_key(q) ==
    <<q.term, "|", q.lat, "|", q.lng, "|", q.radius_m, "|", q.open_now, "|">>
        \o q.price

(***************************************************************************)
(* Bayesian score (calculate_bayesian_score).                              *)
(***************************************************************************)
PRIOR_RATING == FDiv(PRIOR_RATING10, 10)

\* dict.get(k, dflt)
Get(d, k, dflt) == IF k \in DOMAIN d THEN d[k] ELSE dflt

\* The weights of rating and prior exchanged
Score_WeightsSwapped(rating10, review_count) ==
    LET v == review_count
        m == DAMPING_FACTOR
        R == FDiv(rating10, 10)
        C == PRIOR_RATING
    IN  IF v + m = 0
        THEN [raised |-> TRUE, value |-> FZero]
        ELSE [raised |-> FALSE,
              value  |-> FAdd(FMul(FDiv(m, v + m), R), FMul(FDiv(v, v + m), C))]

\* The prior's term left out
Score_NoPrior(rating10, review_count) ==
    LET v == review_count
        m == DAMPING_FACTOR
        R == FDiv(rating10, 10)
    IN  IF v + m = 0
        THEN [raised |-> TRUE, value |-> FZero]
        ELSE [raised |-> FALSE, value |-> FMul(FDiv(v, v + m), R)]

\* (v / (v + m)) * R + (m / (v + m)) * C, each operation rounded as Python
\* rounds it; v + m = 0 raises ZeroDivisionError.  rating10 is the rating in
\* tenths, review_count an int.
calculate_bayesian_score(rating10, review_count) ==
    LET v == review_count
        m == DAMPING_FACTOR
        R == FDiv(rating10, 10)
        C == PRIOR_RATING
    IN  IF v + m = 0
        THEN [raised |-> TRUE, value |-> FZero]
        ELSE [raised |-> FALSE,
              value  |-> FAdd(FMul(FDiv(v, v + m), R), FMul(FDiv(m, v + m), C))]

(***************************************************************************)
(* Upstream records.  A record is a dict; a key may be missing.  The       *)
(* fields the handler only copies (name, price, distance, location, url)   *)
(* are left out.                                                           *)
(***************************************************************************)
Biz(id, rating10, review_count) ==
    [id |-> id, rating |-> rating10, review_count |-> review_count]

bizA == Biz("a", 50, 3)
bizB == Biz("b", 46, 1200)
bizC == [id |-> "c"]
bizD == Biz("d", 50, 3)
bizE == [id |-> "e", rating |-> 40]
bizX == Biz("x", 40, -150)
bizY == Biz("y", 50, -100)

AllBiz == {bizA, bizB, bizC, bizD, bizE, bizX, bizY}

\* lines 200-202, evaluated once per record of the model
ScoreMemo ==
    [b \in AllBiz |->
        calculate_bayesian_score(Get(b, "rating", 0), Get(b, "review_count", 0))]

(***************************************************************************)
(* Re-ranking (get_top_places, lines 197-232).                             *)
(***************************************************************************)
BusinessResult(b) ==
    [yelp_id      |-> Get(b, "id", ""),
     rating       |-> Get(b, "rating", 0),
     review_count |-> Get(b, "review_count", 0),
     score        |-> Round2(ScoreMemo[b].value)]

ScoringRaises(businesses) ==
    \E i \in DOMAIN businesses : ScoreMemo[businesses[i]].raised

scored_results(businesses) ==
    [i \in DOMAIN businesses |-> BusinessResult(businesses[i])]

Reverse(s) == [i \in 1..Len(s) |-> s[Len(s) + 1 - i]]

\* x put behind every element whose score is not greater than its own
InsertAsc(sorted, x) ==
    LET k == Cardinality({i \in DOMAIN sorted : sorted[i].score <= x.score})
    IN  SubSeq(sorted, 1, k) \o <<x>> \o SubSeq(sorted, k + 1, Len(sorted))

\* the stable ascending sort of list.sort
RECURSIVE SortAsc(_)
SortAsc(s) ==
    IF s = <<>> THEN <<>>
    ELSE InsertAsc(SortAsc(SubSeq(s, 1, Len(s) - 1)), s[Len(s)])

\* A descending sort that reverses the order of equals
Sort_Unstable(s) == Reverse(SortAsc(s))

\* list.sort(key=score, reverse=True): the list is reversed, sorted
\* ascending (stable) and reversed again, which keeps the order of equals.
SortByScoreDesc(s) == Reverse(SortAsc(Reverse(s)))

\* scored_results[:limit]
Truncate(s, limit) == SubSeq(s, 1, Min(limit, Len(s)))

final_results(businesses, limit) ==
    Truncate(SortByScoreDesc(scored_results(businesses)), limit)

TopPlacesResponse(q, results) ==
    [term    |-> q.term,
     center  |-> [lat |-> q.lat, lng |-> q.lng, radius_m |-> q.radius_m],
     count   |-> Len(results),
     results |-> results]

NoResponse == TopPlacesResponse(NoQuery, <<>>)

(***************************************************************************)
(* Upstream client (search_yelp).                                          *)
(***************************************************************************)
\* params of the outbound call (lines 104-117)
YelpParams(q) ==
    [term      |-> q.term,
     latitude  |-> q.lat,
     longitude |-> q.lng,
     radius    |-> Min(q.radius_m, 40000),
     limit     |-> Min(q.limit * 5, 50),
     open_now  |-> q.open_now,
     price     |-> StripSpaces(q.price)]

Pools == { <<bizA, bizB>>, <<bizB, bizX>> }

\* What the outbound requests.get can do: answer with a status (a 200 answer
\* carries a JSON object with the businesses, one without that key, or a
\* body that is not JSON), time out, or fail in transport.  A body that is
\* not JSON makes response.json() raise requests' JSONDecodeError (a
\* RequestException) or, with an older requests, a plain ValueError.
Outcome(kind, status, businesses) ==
    [kind |-> kind, status |-> status, businesses |-> businesses]

Outcomes ==
    {Outcome("json", 200, p) : p \in Pools}
        \cup { Outcome("not_json_request_exception", 200, <<>>),
               Outcome("not_json_value_error", 200, <<>>),
               Outcome("status", 429, <<>>),
               Outcome("status", 500, <<>>),
               Outcome("timeout", 0, <<>>),
               Outcome("connection_error", 0, <<>>) }

NoOutcome == Outcome("none", 0, <<>>)

Records(businesses) == [raised |-> 0, businesses |-> businesses]
Raise(status) == [raised |-> status, businesses |-> <<>>]

\* The generic handler placed before the timeout handler
SearchYelp_TimeoutAsGeneric(o) ==
    IF o.kind = "timeout" THEN Raise(502)
    ELSE IF o.kind = "connection_error" THEN Raise(502)
    ELSE IF o.status = 429 THEN Raise(429)
    ELSE IF o.status # 200 THEN Raise(502)
    ELSE IF o.kind = "not_json_request_exception" THEN Raise(502)
    ELSE IF o.kind = "not_json_value_error" THEN Raise(500)
    ELSE IF o.kind = "no_businesses_key" THEN Records(<<>>)
    ELSE Records(o.businesses)

\* A rate-limited answer taken for an empty result
SearchYelp_RateLimitSwallowed(o) ==
    IF o.kind = "timeout" THEN Raise(504)
    ELSE IF o.kind = "connection_error" THEN Raise(502)
    ELSE IF o.status = 429 THEN Records(<<>>)
    ELSE IF o.status # 200 THEN Raise(502)
    ELSE IF o.kind = "not_json_request_exception" THEN Raise(502)
    ELSE IF o.kind = "not_json_value_error" THEN Raise(500)
    ELSE IF o.kind = "no_businesses_key" THEN Records(<<>>)
    ELSE Records(o.businesses)

\* lines 119-147: the records, or the HTTPException raised (its status);
\* 500 stands for an exception no handler catches.
search_yelp(o) ==
    IF o.kind = "timeout" THEN Raise(504)
    ELSE IF o.kind = "connection_error" THEN Raise(502)
    ELSE IF o.status = 429 THEN Raise(429)
    ELSE IF o.status # 200 THEN Raise(502)
    ELSE IF o.kind = "not_json_request_exception" THEN Raise(502)
    ELSE IF o.kind = "not_json_value_error" THEN Raise(500)
    ELSE IF o.kind = "no_businesses_key" THEN Records(<<>>)
    ELSE Records(o.businesses)

(***************************************************************************)
(* The cache: cachetools.TTLCache(maxsize, ttl).  The entries are held     *)
(* in least-recently-used order, the first being the next one evicted for  *)
(* capacity; an entry is [key, value, expires].                            *)
(***************************************************************************)
HasKey(c, key) == \E i \in DOMAIN c : c[i].key = key

EntryOf(c, key) == c[CHOOSE i \in DOMAIN c : c[i].key = key]

Without(c, key) == SelectSeq(c, LAMBDA e : e.key # key)

\* Membership that does not look at the expiry
Contains_NoExpiry(c, key, time) == HasKey(c, key)

\* key in cache: TTLCache.__contains__
TTLContains(c, key, time) ==
    HasKey(c, key) /\ time < EntryOf(c, key).expires

\* TTLCache.expire(time)
Expire(c, time) == SelectSeq(c, LAMBDA e : time < e.expires)

\* cache[key]: TTLCache.__getitem__.  A key that is present is moved to the
\* most-recently-used end before its expiry is looked at; a missing or
\* expired key raises KeyError.
TTLGetItem(c, key, time) ==
    IF ~HasKey(c, key)
    THEN [raised |-> TRUE, value |-> NoResponse, cache |-> c]
    ELSE LET e == EntryOf(c, key)
             moved == Without(c, key) \o <<e>>
         IN  IF time < e.expires
             THEN [raised |-> FALSE, value |-> e.value, cache |-> moved]
             ELSE [raised |-> TRUE, value |-> NoResponse, cache |-> moved]

\* The keys popitem evicts for capacity when key is stored
Popped(c, key, time) ==
    LET live == Expire(c, time)
    IN  IF HasKey(live, key) \/ Len(live) < maxsize THEN <<>>
        ELSE SubSeq(live, 1, Len(live) - maxsize + 1)

\* cache[key] = value: TTLCache.__setitem__
TTLSetItem(c, key, value, time) ==
    LET live == Expire(c, time)
        kept == IF HasKey(live, key) THEN Without(live, key)
                ELSE SubSeq(live, Len(Popped(c, key, time)) + 1, Len(live))
    IN  kept \o <<[key |-> key, value |-> value, expires |-> time + ttl]>>

(***************************************************************************)
(* GET /top (get_top_places).  Each request runs in its own worker thread. *)
(* A step of a request ends with one access to the shared cache or with    *)
(* the return of the upstream call, and takes in the computation local to  *)
(* the request around it:                                                  *)
(*   idle  -> done | read | fetch   validation (lines 152-177), the key    *)
(*                                  and `cache_key in cache` (180-183);    *)
(*                                  on a miss search_yelp is called (187)  *)
(*   read  -> done                  `cache[cache_key]` (line 184)          *)
(*   fetch -> done                  search_yelp returns (119-147), the     *)
(*                                  re-ranking (197-232) and               *)
(*                                  `cache[cache_key] = response` (235)    *)
(*   done  -> idle                  the answer has been sent               *)
(* status is the HTTP status of the answer: 200, 422 and 400 from          *)
(* validation, 429, 502 and 504 from search_yelp, 500 for an exception no   *)
(* handler catches.  called, up and hist are history kept for the          *)
(* properties: whether the request invoked search_yelp, what the upstream  *)
(* did, and for each key the time of its last store and whether that entry *)
(* has since been evicted for capacity.                                    *)
(***************************************************************************)
Req == 1..NumReq

Keys == {cache_key(q) : q \in {x \in Queries : ParamsInRange(x) /\ PriceValid(x.price)}}

IdleReq ==
    [pc |-> "idle", q |-> NoQuery, called |-> FALSE, up |-> NoOutcome,
     src |-> "none", status |-> 0, body |-> NoResponse]

Answer(r, src, status, body) ==
    [r EXCEPT !.pc = "done", !.src = src, !.status = status, !.body = body]

NoHist == [at |-> -1, evicted |-> FALSE]

IdleRank == [step |-> "off", businesses |-> <<>>, limit |-> 0, results |-> <<>>]

NoScore == [set |-> FALSE, v |-> 0, raised |-> FALSE, value |-> FZero]

IdleScore == [step |-> "off", biz |-> bizC, prev |-> NoScore, cur |-> NoScore]

Init ==
    /\ now = 0
    /\ cache = <<>>
    /\ req = [r \in Req |-> IdleReq]
    /\ hist = [k \in Keys |-> NoHist]
    /\ rk = IdleRank
    /\ sc = IdleScore

\* lines 152-183: the framework's range checks, the price check, the key
\* and the membership test
Arrive(r, q) ==
    /\ req[r].pc = "idle"
    /\ req' = [req EXCEPT ![r] =
                 LET a == [IdleReq EXCEPT !.q = q]
                 IN  IF ~ParamsInRange(q) THEN Answer(a, "validation", 422, NoResponse)
                     ELSE IF ~PriceValid(q.price) THEN Answer(a, "validation", 400, NoResponse)
                     ELSE IF TTLContains(cache, cache_key(q), now) THEN [a EXCEPT !.pc = "read"]
                     ELSE [a EXCEPT !.pc = "fetch", !.called = TRUE]]
    /\ UNCHANGED <<now, cache, hist, rk, sc>>

\* line 184
Read(r) ==
    /\ req[r].pc = "read"
    /\ LET got == TTLGetItem(cache, cache_key(req[r].q), now)
       IN  /\ cache' = got.cache
           /\ req' = [req EXCEPT ![r] =
                        IF got.raised THEN Answer(@, "cache", 500, NoResponse)
                        ELSE Answer(@, "cache", 200, got.value)]
    /\ UNCHANGED <<now, hist, rk, sc>>

\* lines 187-237
Fetch(r, o) ==
    /\ req[r].pc = "fetch"
    /\ Len(o.businesses) <= YelpParams(req[r].q).limit
    /\ LET got  == search_yelp(o)
           this == [req[r] EXCEPT !.up = [o EXCEPT !.businesses = <<>>]]
           key  == cache_key(this.q)
           response == TopPlacesResponse(this.q, final_results(got.businesses, this.q.limit))
           popped == {e.key : e \in SeqToSet(Popped(cache, key, now))}
       IN  IF got.raised # 0
           THEN /\ req' = [req EXCEPT ![r] = Answer(this, "upstream", got.raised, NoResponse)]
                /\ UNCHANGED <<cache, hist>>
           ELSE IF ScoringRaises(got.businesses)
           THEN /\ req' = [req EXCEPT ![r] = Answer(this, "scoring", 500, NoResponse)]
                /\ UNCHANGED <<cache, hist>>
           ELSE /\ req' = [req EXCEPT ![r] = Answer(this, "upstream", 200, response)]
                /\ cache' = TTLSetItem(cache, key, response, now)
                /\ hist' = [k \in Keys |->
                              IF k = key THEN [at |-> now, evicted |-> FALSE]
                              ELSE IF k \in popped THEN [hist[k] EXCEPT !.evicted = TRUE]
                              ELSE hist[k]]
    /\ UNCHANGED <<now, rk, sc>>

Complete(r) ==
    /\ req[r].pc = "done"
    /\ req' = [req EXCEPT ![r] = IdleReq]
    /\ UNCHANGED <<now, cache, hist, rk, sc>>

\* time.monotonic() moves on: to the last second before the next multiple
\* of ttl, and from there to that multiple
NextTime(t) == IF t % ttl = 0 THEN t + ttl - 1 ELSE t + 1

RECURSIVE TimeAfter(_)
TimeAfter(n) == IF n = 0 THEN 0 ELSE NextTime(TimeAfter(n - 1))

Tick ==
    /\ now < TimeAfter(MaxTicks)
    /\ now' = NextTime(now)
    /\ UNCHANGED <<cache, req, hist, rk, sc>>

Next ==
    \/ \E r \in Req, q \in Queries : Arrive(r, q)
    \/ \E r \in Req : Read(r)
    \/ \E r \in Req, o \in Outcomes : Fetch(r, o)
    \/ \E r \in Req : Complete(r)
    \/ Tick

Spec == Init /\ [][Next]_vars

(***************************************************************************)
(* Properties of GET /top, checked under Spec.                             *)
(***************************************************************************)
Valid(q) == ParamsInRange(q) /\ PriceValid(q.price)

\* The step in which request slot r takes a new request
Arrives(r) == req[r].pc = "idle" /\ req'[r].pc # "idle"

\* Key k was last stored less than ttl seconds ago
WithinTTL(k) == hist[k].at >= 0 /\ now - hist[k].at < ttl

\* Key k was stored at some time, ttl seconds ago or earlier
PastTTL(k) == hist[k].at >= 0 /\ now - hist[k].at >= ttl

\* What a hit returns is the response held under the request's key, and a
\* request answered from the cache has not called the upstream.
ReadsStored(r) ==
    (req[r].pc = "read" /\ req'[r].pc = "done" /\ req'[r].status = 200)
        => /\ HasKey(cache, cache_key(req[r].q))
           /\ req'[r].body = EntryOf(cache, cache_key(req[r].q)).value
           /\ ~req'[r].called

PriceChars == {"1", "2", "3", "4", ",", " "}

\* A query that fails validation in the sense of the claim
FailsValidation(q) ==
    \/ q.lat < -90 \/ q.lat > 90
    \/ q.lng < -180 \/ q.lng > 180
    \/ \E i \in DOMAIN q.price : q.price[i] \notin PriceChars

\* C2: a request that fails validation (lat or lng out of range, or a price
\* with a character other than 1, 2, 3, 4, comma, space) is answered with a
\* client error, never calls the upstream and leaves the cache unchanged.
C2_RejectedBeforeUpstream ==
    [][\A r \in Req :
          /\ FailsValidation(req'[r].q)
                => /\ req'[r].pc = "done"
                   /\ req'[r].src = "validation"
                   /\ req'[r].status \in {400, 422}
                   /\ ~req'[r].called
          /\ (Arrives(r) /\ FailsValidation(req'[r].q)) => cache' = cache]_vars

\* Rejected requests of each kind, with entries in the cache
C2_Witness ==
    /\ cache # <<>>
    /\ \E r1, r2 \in Req :
          /\ req[r1].pc = "done" /\ req[r1].status = 400
          /\ \E i \in DOMAIN req[r1].q.price : req[r1].q.price[i] \notin PriceChars
          /\ req[r2].pc = "done" /\ req[r2].status = 422
          /\ req[r2].q.lat > 90

RateLimited(o) == o.kind = "status" /\ o.status = 429
TimedOut(o) == o.kind = "timeout"
OtherFailure(o) ==
    \/ o.kind = "status" /\ o.status \notin {200, 429}
    \/ o.kind = "connection_error"

\* C3: upstream 429 gives 429, a timeout gives 504, any other non-200 status
\* or transport failure gives 502; 429 and 504 come from nothing else, and
\* only a 200 answer yields records.
C3_ErrorCategories ==
    \A r \in Req :
        (req[r].pc = "done" /\ req[r].called)
            => /\ RateLimited(req[r].up) <=> req[r].status = 429
               /\ TimedOut(req[r].up) <=> req[r].status = 504
               /\ OtherFailure(req[r].up) => req[r].status = 502
               /\ req[r].status = 200 => req[r].up.status = 200

\* Two requests answered with different error categories
C3_Witness ==
    \E r1, r2 \in Req :
        /\ req[r1].pc = "done" /\ req[r1].called /\ req[r2].pc = "done" /\ req[r2].called
        /\ TimedOut(req[r1].up) /\ req[r1].status = 504
        /\ OtherFailure(req[r2].up) /\ req[r2].status = 502

\* Two queries that differ at most in the order and spacing of the price
\* values
SameNormalizedQuery(q1, q2) ==
    /\ q1.term = q2.term /\ q1.lat = q2.lat /\ q1.lng = q2.lng
    /\ q1.radius_m = q2.radius_m /\ q1.open_now = q2.open_now
    /\ price_parts(q1.price) = price_parts(q2.price)

InHandler(r) == req[r].pc \in {"read", "fetch"} \/ (req[r].pc = "done" /\ req[r].src # "validation")

\* C4: requests that differ only in the order or spacing of the price values
\* have the same cache key.
C4_OrderIndependentKey ==
    \A r1, r2 \in Req :
        (InHandler(r1) /\ InHandler(r2) /\ SameNormalizedQuery(req[r1].q, req[r2].q))
            => cache_key(req[r1].q) = cache_key(req[r2].q)

\* C5: no request fails with an internal error in its cache access, and a
\* response returned from the cache is one for the request's own query.
C5_AtomicCacheAccess ==
    \A r \in Req :
        (req[r].pc = "done" /\ req[r].src = "cache")
            => /\ req[r].status = 200
               /\ req[r].body.term = req[r].q.term
               /\ req[r].body.center.lat = req[r].q.lat
               /\ req[r].body.center.lng = req[r].q.lng

UpstreamFailed(o) == RateLimited(o) \/ TimedOut(o) \/ OtherFailure(o)

\* C9: a request whose upstream call fails returns the error with no result
\* list and stores nothing, and a query that was never stored is never
\* answered from the cache: its next request calls the upstream again.
C9_AllOrNothing ==
    [][\A r \in Req :
          /\ (req[r].pc = "fetch" /\ req'[r].pc = "done" /\ UpstreamFailed(req'[r].up))
                => /\ req'[r].status \in {429, 502, 504}
                   /\ req'[r].body = NoResponse
                   /\ cache' = cache
          /\ (Arrives(r) /\ Valid(req'[r].q) /\ hist[cache_key(req'[r].q)].at = -1)
                => req'[r].pc = "fetch"]_vars

\* A request has failed upstream and the next one for the same query is
\* calling the upstream.
C9_Witness ==
    \E r1, r2 \in Req :
        /\ req[r1].pc = "done" /\ UpstreamFailed(req[r1].up) /\ req[r1].status = 429
        /\ req[r2].pc = "fetch" /\ req[r2].q = req[r1].q
        /\ hist[cache_key(req[r2].q)].at = -1
        /\ cache # <<>>

\* C11: a successful response, computed from the upstream or served from the
\* cache, holds at most the request's own `limit` results, and its count is
\* the length of its result list.
C11_OwnLimit ==
    \A r \in Req :
        (req[r].pc = "done" /\ req[r].status = 200)
            => /\ Len(req[r].body.results) <= req[r].q.limit
               /\ req[r].body.count = Len(req[r].body.results)


(***************************************************************************)
(* The re-ranking on its own: an upstream answer of up to MaxPool distinct *)
(* records and a display limit, put through lines 197-224.                 *)
(***************************************************************************)
RECURSIVE Arrangements(_, _)
Arrangements(S, n) ==
    IF n = 0 THEN {<<>>}
    ELSE {<<>>} \cup {<<b>> \o t : b \in S, t \in Arrangements(S, n - 1)}

Distinct(s) == \A i, j \in DOMAIN s : i # j => s[i] # s[j]

RankPools == {p \in Arrangements(AllBiz, MaxPool) : Distinct(p)}

InitRank ==
    /\ now = 0
    /\ cache = <<>>
    /\ req = [r \in Req |-> IdleReq]
    /\ hist = [k \in Keys |-> NoHist]
    /\ sc = IdleScore
    /\ \E p \in RankPools, l \in 1..MaxLimit :
          rk = [step |-> "new", businesses |-> p, limit |-> l, results |-> <<>>]

\* lines 197-224 on rk.businesses
Rank ==
    /\ rk.step = "new"
    /\ rk' = IF ScoringRaises(rk.businesses)
             THEN [rk EXCEPT !.step = "raised"]
             ELSE [rk EXCEPT !.step = "ranked",
                             !.results = final_results(rk.businesses, rk.limit)]
    /\ UNCHANGED <<now, cache, req, hist, sc>>

NextRank == Rank

SpecRank == InitRank /\ [][NextRank]_vars

\* The place of the record with this id in the upstream answer
UpstreamPos(id) ==
    CHOOSE i \in DOMAIN rk.businesses : Get(rk.businesses[i], "id", "") = id

\* C6: the result list is min(limit, n) of the n upstream records, in
\* descending order of score, records of equal score in their upstream order,
\* and no record left out scores higher than one kept, nor scores the same as
\* a kept one that follows it in the upstream answer.
C6_TopByScore ==
    rk.step = "ranked" =>
        LET res  == rk.results
            biz  == rk.businesses
            kept == {UpstreamPos(res[i].yelp_id) : i \in DOMAIN res}
        IN  /\ Len(res) = Min(rk.limit, Len(biz))
            /\ \A i \in DOMAIN res :
                  /\ \E j \in DOMAIN biz : res[i] = BusinessResult(biz[j])
                  /\ \A j \in DOMAIN res : i # j => res[i].yelp_id # res[j].yelp_id
            /\ \A i, j \in DOMAIN res :
                  i < j => \/ res[i].score > res[j].score
                           \/ /\ res[i].score = res[j].score
                              /\ UpstreamPos(res[i].yelp_id) < UpstreamPos(res[j].yelp_id)
            /\ \A o \in DOMAIN biz \ kept : \A k \in kept :
                  \/ BusinessResult(biz[o]).score < BusinessResult(biz[k]).score
                  \/ /\ BusinessResult(biz[o]).score = BusinessResult(biz[k]).score
                     /\ k < o

\* A truncated ranking whose first result is not the first upstream record
\* and whose last result ties with a record that is left out
C6_Witness ==
    /\ rk.step = "ranked"
    /\ Len(rk.businesses) > rk.limit
    /\ rk.results[1].yelp_id # Get(rk.businesses[1], "id", "")
    /\ \E o \in DOMAIN rk.businesses :
          /\ \A i \in DOMAIN rk.results :
                rk.results[i].yelp_id # Get(rk.businesses[o], "id", "")
          /\ BusinessResult(rk.businesses[o]).score = rk.results[Len(rk.results)].score

(***************************************************************************)
(* The score on its own: a record is scored as lines 200-202 score it, and *)
(* then again with a larger review count.                                  *)
(***************************************************************************)
Ratings10 == {0, 25, 38, 46, 50}

ReviewCounts == {-200, -150, -100, -1, 0, 1, 2, 3, 7, 150, 1200}

ScoreBiz ==
    {Biz("s", r, v) : r \in Ratings10, v \in ReviewCounts}
        \cup {[id |-> "s", rating |-> r] : r \in Ratings10}
        \cup {[id |-> "s", review_count |-> v] : v \in ReviewCounts}
        \cup {[id |-> "s"]}

\* lines 200-202
ScoreOfBiz(b) ==
    LET got == calculate_bayesian_score(Get(b, "rating", 0), Get(b, "review_count", 0))
    IN  [set |-> TRUE, v |-> Get(b, "review_count", 0),
         raised |-> got.raised, value |-> got.value]

InitScore ==
    /\ now = 0
    /\ cache = <<>>
    /\ req = [r \in Req |-> IdleReq]
    /\ hist = [k \in Keys |-> NoHist]
    /\ rk = IdleRank
    /\ \E b \in ScoreBiz : sc = [step |-> "new", biz |-> b, prev |-> NoScore, cur |-> NoScore]

ScoreIt ==
    /\ sc.step = "new"
    /\ sc' = [sc EXCEPT !.step = "scored", !.cur = ScoreOfBiz(sc.biz)]
    /\ UNCHANGED <<now, cache, req, hist, rk>>

\* the same business with more reviews
MoreReviews(v) ==
    /\ sc.step = "scored"
    /\ "review_count" \in DOMAIN sc.biz
    /\ v > sc.biz.review_count
    /\ LET b == [sc.biz EXCEPT !.review_count = v]
       IN  sc' = [sc EXCEPT !.biz = b, !.prev = sc.cur, !.cur = ScoreOfBiz(b)]
    /\ UNCHANGED <<now, cache, req, hist, rk>>

NextScore ==
    \/ ScoreIt
    \/ \E v \in ReviewCounts : MoreReviews(v)

SpecScore == InitScore /\ [][NextScore]_vars

Scored(rating10, v) ==
    /\ sc.step = "scored" /\ ~sc.cur.raised
    /\ DOMAIN sc.biz = {"id", "rating", "review_count"}
    /\ sc.biz.rating = rating10 /\ sc.biz.review_count = v

InDomain ==
    /\ sc.step = "scored"
    /\ "rating" \in DOMAIN sc.biz /\ sc.biz.rating >= 0 /\ sc.biz.rating <= 50
    /\ sc.cur.v >= 0
    /\ sc.prev.set => sc.prev.v >= 0

Rating == FDiv(Get(sc.biz, "rating", 0), 10)

\* |x - y|, exact
Dist(x, y) == FAbs(ExactSum(x, FNeg(y)))

FLeq(x, y) == FCmp(x, y) <= 0

LowerOf(x, y) == IF FLeq(x, y) THEN x ELSE y
UpperOf(x, y) == IF FLeq(x, y) THEN y ELSE x

\* C8 as stated: score(R, 0) = C; the score lies between C and R; and with
\* more reviews it is no farther from R.
C8_Original ==
    InDomain =>
        /\ sc.cur.v = 0 => FCmp(sc.cur.value, PRIOR_RATING) = 0
        /\ FLeq(LowerOf(PRIOR_RATING, Rating), sc.cur.value)
        /\ FLeq(sc.cur.value, UpperOf(PRIOR_RATING, Rating))
        /\ sc.prev.set => FLeq(Dist(sc.cur.value, Rating), Dist(sc.prev.value, Rating))

\* 2^-48, about 3.6e-15: above the rounding error of the five float
\* operations on values up to 5
Tolerance == [sign |-> 1, mant |-> <<1>>, exp |-> -48]

\* C8 amended: score(R, 0) = C exactly; up to a float rounding error of
\* 2^-48 the score lies between C and R, and with more reviews it is no
\* farther from R.
C8_TowardRating ==
    InDomain =>
        /\ sc.cur.v = 0 => FCmp(sc.cur.value, PRIOR_RATING) = 0
        /\ FLeq(LowerOf(PRIOR_RATING, Rating), ExactSum(sc.cur.value, Tolerance))
        /\ FLeq(sc.cur.value, ExactSum(UpperOf(PRIOR_RATING, Rating), Tolerance))
        /\ sc.prev.set =>
              FLeq(Dist(sc.cur.value, Rating),
                   ExactSum(Dist(sc.prev.value, Rating), Tolerance))

\* Rating 5.0 scored with no reviews and then with 1200: the score has left
\* the prior toward the rating
C8_Witness ==
    /\ InDomain /\ sc.biz.rating = 50
    /\ sc.prev.set /\ sc.prev.v = 0 /\ sc.cur.v = 1200
    /\ FCmp(sc.prev.value, PRIOR_RATING) = 0
    /\ FCmp(sc.cur.value, sc.prev.value) > 0

\* C10: a record whose review count is negative or missing is scored without
\* an error, and its score is the prior C.
C10_NegativeAsZero ==
    (/\ sc.step = "scored"
     /\ ("review_count" \notin DOMAIN sc.biz \/ sc.biz.review_count < 0))
        => /\ ~sc.cur.raised
           /\ FCmp(sc.cur.value, PRIOR_RATING) = 0

====
